---- MODULE Spec2Model ----
(***************************************************************************)
(* svitlo_bot: a host-availability monitor (src/main.py).                  *)
(*                                                                         *)
(* One sequential process: resolve the configuration, load the persisted   *)
(* state, then loop forever: ping, compare with the remembered status, on  *)
(* a change notify through Telegram (3 attempts) and persist, sleep.       *)
(*                                                                         *)
(* The environment is modelled next to the process: a wall clock, the      *)
(* target's true power status, the state file, the process environment,    *)
(* and a supervisor that may kill the process and start it again.          *)
(* Strings that the code parses are modelled as sequences of characters.   *)
(***************************************************************************)
EXTENDS Integers, Sequences, FiniteSets, TLC

VARIABLES
    env,            \* os.environ of the current run: the four variables read
    file,           \* content of STATE_FILE
    clock,          \* wall clock, seconds (time.time())
    truth,          \* the target's true status
    truth_since,    \* the instant the target's current run of `truth` began
    runs,           \* number of process starts so far
    pc,             \* position of the process in main()
    exit_code,      \* exit code of the last run, <<>> while none
    exit_cause,     \* what ended the last run
    interval,       \* main: interval
    current_status, \* main: current_status
    changed_at,     \* main: changed_at, <<>> for None
    is_up,          \* main: is_up
    new_status,     \* main: new_status
    now,            \* main: now
    message,        \* main: message
    attempt,        \* send_telegram: attempt
    send_result,    \* value returned by send_telegram, "None" before it returns
    outcomes,       \* per-attempt outcomes of the current send_telegram call
    delays,         \* arguments of time.sleep inside the current send_telegram call
    ping_since,     \* truth_since at the moment of the last ping
    prev_status,    \* remembered status at the start of the current cycle
    first_cycle,    \* TRUE until the first cycle of this run has reached its sleep
    did,            \* which operations this run has performed
    cyc_send,       \* send_telegram invocations in the current cycle
    cyc_save,       \* save_state invocations in the current cycle
    pending,        \* status notified by a run killed before saving it, <<>> if none
    arg,            \* argument of a function called on its own
    ret             \* what that call returned, <<>> before it returns

vars == << env, file, clock, truth, truth_since, runs, pc, exit_code, exit_cause,
           interval, current_status, changed_at, is_up, new_status, now, message,
           attempt, send_result, outcomes, delays, ping_since, prev_status,
           first_cycle, did, cyc_send, cyc_save, pending, arg, ret >>

callVars == << arg, ret >>

\* every variable of the process and of its environment, pc apart
mainVars == << env, file, clock, truth, truth_since, runs, exit_code, exit_cause,
               interval, current_status, changed_at, is_up, new_status, now,
               message, attempt, send_result, outcomes, delays, ping_since,
               prev_status, first_cycle, did, cyc_send, cyc_save, pending >>

envVars  == << clock, truth, truth_since >>
sendVars == << attempt, send_result, outcomes, delays >>

----------------------------------------------------------------------------
(* Bounds of the model *)

\* the clock advances in steps of TickSeconds, at most MaxTicks times
TickSeconds == 45
MaxTicks == 3
\* the supervisor starts the process at most MaxRuns times
MaxRuns == 2

MaxTime == MaxTicks * TickSeconds

----------------------------------------------------------------------------
(* Python values *)

None == <<>>
Some(x) == << x >>

\* str.split(sep) on a sequence of characters
RECURSIVE SplitFrom(_, _, _, _)
SplitFrom(s, sep, i, cur) ==
    IF i > Len(s) THEN << cur >>
    ELSE IF s[i] = sep THEN << cur >> \o SplitFrom(s, sep, i + 1, <<>>)
    ELSE SplitFrom(s, sep, i + 1, Append(cur, s[i]))

Split(s, sep) == SplitFrom(s, sep, 1, <<>>)

DigitChars == {"0", "1", "2", "3", "4", "5", "6", "7", "8", "9"}

DigitVal(c) ==
    CASE c = "0" -> 0 [] c = "1" -> 1 [] c = "2" -> 2 [] c = "3" -> 3
      [] c = "4" -> 4 [] c = "5" -> 5 [] c = "6" -> 6 [] c = "7" -> 7
      [] c = "8" -> 8 [] c = "9" -> 9

\* str.strip(): int() ignores surrounding whitespace
RECURSIVE LStrip(_)
LStrip(s) == IF Len(s) > 0 /\ Head(s) = " " THEN LStrip(Tail(s)) ELSE s

RECURSIVE RStrip(_)
RStrip(s) ==
    IF Len(s) > 0 /\ s[Len(s)] = " " THEN RStrip(SubSeq(s, 1, Len(s) - 1)) ELSE s

Strip(s) == LStrip(RStrip(s))

\* the digits part of an int() literal: digits, single underscores between digits
IsDigitsBody(b) ==
    /\ Len(b) > 0
    /\ b[1] \in DigitChars
    /\ b[Len(b)] \in DigitChars
    /\ \A i \in 1..Len(b) : b[i] \in DigitChars \cup {"_"}
    /\ \A i \in 1..(Len(b) - 1) : ~(b[i] = "_" /\ b[i + 1] = "_")

Unsigned(t) == IF Len(t) > 0 /\ Head(t) \in {"+", "-"} THEN Tail(t) ELSE t

\* int(s) does not raise ValueError
PyIntParses(s) == IsDigitsBody(Unsigned(Strip(s)))

RECURSIVE DigitsValue(_, _)
DigitsValue(b, acc) ==
    IF Len(b) = 0 THEN acc
    ELSE IF Head(b) = "_" THEN DigitsValue(Tail(b), acc)
    ELSE DigitsValue(Tail(b), 10 * acc + DigitVal(Head(b)))

\* int(s), for s with PyIntParses(s)
PyInt(s) ==
    LET t == Strip(s)
        v == DigitsValue(Unsigned(t), 0)
    IN  IF Len(t) > 0 /\ Head(t) = "-" THEN 0 - v ELSE v

----------------------------------------------------------------------------
(* validate_ipv4 *)

OctetOk(part) == PyIntParses(part) /\ PyInt(part) >= 0 /\ PyInt(part) <= 255

validate_ipv4(ip) ==
    LET parts == Split(ip, ".")
    IN  /\ Len(parts) = 4
        /\ \A i \in 1..Len(parts) : OctetOk(parts[i])

----------------------------------------------------------------------------
(* format_duration: the result is the sequence of its space-joined segments,
   each a number followed by its unit *)

Seg(n, unit) == [value |-> n, unit |-> unit]

\* the hours segment only when hours > 0
format_duration_positive_hours(seconds) ==
    LET total_minutes == seconds \div 60
        days          == total_minutes \div (24 * 60)
        remaining     == total_minutes % (24 * 60)
        hours         == remaining \div 60
        minutes       == remaining % 60
    IN  (IF days > 0 THEN << Seg(days, "d") >> ELSE <<>>)
        \o (IF hours > 0 THEN << Seg(hours, "h") >> ELSE <<>>)
        \o << Seg(minutes, "m") >>

format_duration(seconds) ==
    LET total_minutes == seconds \div 60
        days          == total_minutes \div (24 * 60)
        remaining     == total_minutes % (24 * 60)
        hours         == remaining \div 60
        minutes       == remaining % 60
    IN  (IF days > 0 THEN << Seg(days, "d") >> ELSE <<>>)
        \o (IF days > 0 \/ hours > 0 THEN << Seg(hours, "h") >> ELSE <<>>)
        \o << Seg(minutes, "m") >>

----------------------------------------------------------------------------
(* The process environment *)

Unset == [set |-> FALSE, val |-> <<>>]
Val(s) == [set |-> TRUE, val |-> s]

\* os.environ.get(name): None when unset
Falsy(v) == ~v.set \/ Len(v.val) = 0

TokenSamples == { Unset, Val(<<>>), Val(<< "t" >>) }
ChatSamples  == { Unset, Val(<<>>), Val(<< "7" >>) }
IpSamples ==
    { Unset,
      Val(<< "1", ".", "2", ".", "3", ".", "4" >>),
      Val(<< "1", ".", "2", ".", "3" >>),
      Val(<< "1", ".", "2", ".", "3", ".", "2", "5", "6" >>),
      Val(<< "1", ".", "a", ".", "3", ".", "4" >>),
      Val(<< "1", ".", ".", "3", ".", "4" >>) }
IntervalSamples ==
    { Unset,
      Val(<< "a", "b", "c" >>),
      Val(<<>>),
      Val(<< "0" >>),
      Val(<< "-", "5" >>) }

\* a complete environment, and the environments that differ from it in one variable
GoodEnv ==
    [ token |-> Val(<< "t" >>), chat_id |-> Val(<< "7" >>),
      target_ip |-> Val(<< "1", ".", "2", ".", "3", ".", "4" >>), interval |-> Unset ]

EnvSamples ==
    { [GoodEnv EXCEPT !.token = v] : v \in TokenSamples }
    \cup { [GoodEnv EXCEPT !.chat_id = v] : v \in ChatSamples }
    \cup { [GoodEnv EXCEPT !.target_ip = v] : v \in IpSamples }
    \cup { [GoodEnv EXCEPT !.interval = v] : v \in IntervalSamples }

NoEnv == [ token |-> Unset, chat_id |-> Unset, target_ip |-> Unset, interval |-> Unset ]

\* os.environ.get("CHECK_INTERVAL_SECONDS", "180")
DefaultInterval == << "1", "8", "0" >>
IntervalText(e) == IF e.interval.set THEN e.interval.val ELSE DefaultInterval

ConfigOkUnlessUnset(e) ==
    /\ e.token.set
    /\ e.chat_id.set
    /\ e.target_ip.set
    /\ validate_ipv4(e.target_ip.val)
    /\ PyIntParses(IntervalText(e))

\* main, lines 123-135: does startup get past the configuration
ConfigOk(e) ==
    /\ ~Falsy(e.token)
    /\ ~Falsy(e.chat_id)
    /\ ~Falsy(e.target_ip)
    /\ validate_ipv4(e.target_ip.val)
    /\ PyIntParses(IntervalText(e))

----------------------------------------------------------------------------
(* The state file *)

\* kinds of content of STATE_FILE; "record" is what save_state writes
FileKinds ==
    { "absent",          \* STATE_FILE.exists() is False
      "unreadable",      \* open() raises IOError
      "undecodable",     \* bytes that are not text: read() raises UnicodeDecodeError
      "garbage",         \* text that is not JSON (an empty file too): JSONDecodeError
      "falsy",           \* JSON null, false, 0, "", [] or {}
      "nondict",         \* a non-empty JSON array, string, number or true
      "no_status",       \* a JSON object without "status"
      "no_changed_at",   \* a JSON object with "status", without "changed_at"
      "bad_changed_at",  \* "status" and a "changed_at" that is not a number
      "record" }         \* {"status": ..., "changed_at": <number>}

Other(kind) == [kind |-> kind, status |-> "None", changed_at |-> None]
Record(status, at) == [kind |-> "record", status |-> status, changed_at |-> at]

\* load_state: what the call does with the file content
load_state(f) ==
    CASE f.kind = "absent"                  -> "none"
      [] f.kind \in {"unreadable", "garbage"} -> "none"
      [] f.kind = "undecodable"             -> "raise"
      [] OTHER                              -> "value"

\* the loaded value is never taken up
TruthyNever(f) == FALSE

\* bool(state) of the loaded JSON value
Truthy(f) == f.kind \in {"nondict", "no_status", "no_changed_at", "bad_changed_at", "record"}

\* main, lines 149-151 run without raising on the loaded value
Adoptable(f) == f.kind = "record"

\* save_state: the file it leaves behind, by outcome
SaveOutcomes == {"ok", "oserror", "write_error"}

save_state_skipped(f, status, at, outcome) == f

\* writes the status into the record already there, keeping its changed_at
save_state_patched(f, status, at, outcome) ==
    CASE outcome = "ok"          -> Record(status, IF f.kind = "record"
                                                   THEN f.changed_at ELSE at)
      [] outcome = "oserror"     -> f
      [] outcome = "write_error" -> Other("garbage")

save_state(f, status, at, outcome) ==
    CASE outcome = "ok"          -> Record(status, at)
      [] outcome = "oserror"     -> f
      [] outcome = "write_error" -> Other("garbage")

----------------------------------------------------------------------------
(* Notifications *)

max_retries == 3

PostOutcomes == {"200", "non200", "transport"}

DeliveredAnyResponse(outcome) == outcome # "transport"

\* line 105: the attempt succeeded
Delivered(outcome) == outcome = "200"

AfterSendIfDelivered(result) == IF result = "True" THEN "update" ELSE "sleep"

\* a failed notification sends main back to the probe
AfterSendReprobe(result) == IF result = "False" THEN "ping" ELSE "update"

\* lines 178-180: the value send_telegram returns is not looked at
AfterSend(result) == "update"

\* line 159
StatusOf(up) == IF up THEN "UP" ELSE "DOWN"

\* line 162
IsColdStart(remembered) == remembered = "None"

IsTransitionOnDown(observed, remembered) == observed = "DOWN"

\* every observation counts as a change
IsTransitionAlways(observed, remembered) == TRUE

\* line 167
IsTransition(observed, remembered) == observed # remembered

DurationSinceNow(t, at) == t - t

\* the clock is read again when the state is saved
StampAtSave(t) == Some(clock)

StampWholeMinute(t) == Some(t - (t % 60))

\* lines 164 and 181: changed_at = now
Stamp(t) == Some(t)

\* line 168
Duration(t, at) == t - at[1]

NoMessage == [phrase |-> "none", duration_str |-> <<>>]

\* main, lines 168-175
BuildMessage(status, at, t) ==
    [ phrase       |-> IF status = "DOWN" THEN "down" ELSE "up",
      duration_str |-> format_duration(Duration(t, at)) ]

AttemptCarriedOver(failed_before) == IF failed_before THEN max_retries - 1 ELSE 0

\* line 102: range(max_retries) counts from 0 in every call, whatever came before
FirstAttempt(failed_before) == 0

BackoffFromOne(a) == 2 ^ a

\* delay of the backoff sleep after the failed attempt number `a` (0-based)
Backoff(a) == 2 ^ (a + 1)

----------------------------------------------------------------------------
(* Initial state *)

\* failed: a send_telegram call of this run has returned False
NoneDone ==
    [load |-> FALSE, probe |-> FALSE, send |-> FALSE, save |-> FALSE,
     failed |-> FALSE, ping |-> "none", detected |-> None]

InitFiles == { Other(k) : k \in FileKinds \ {"record"} }

Init ==
    /\ env = NoEnv
    /\ file \in InitFiles
    /\ clock = 0
    /\ truth \in {"UP", "DOWN"}
    /\ truth_since = 0
    /\ runs = 0
    /\ pc = "stopped"
    /\ exit_code = None
    /\ exit_cause = "none"
    /\ interval = 0
    /\ current_status = "None"
    /\ changed_at = None
    /\ is_up = FALSE
    /\ new_status = "None"
    /\ now = 0
    /\ message = NoMessage
    /\ attempt = 0
    /\ send_result = "None"
    /\ outcomes = <<>>
    /\ delays = <<>>
    /\ ping_since = 0
    /\ prev_status = "None"
    /\ first_cycle = TRUE
    /\ did = NoneDone
    /\ cyc_send = 0
    /\ cyc_save = 0
    /\ pending = None
    /\ arg = None
    /\ ret = None

\* the process is gone: its variables with it
Stop(code, cause) ==
    /\ pc' = "stopped"
    /\ exit_code' = code
    /\ exit_cause' = cause
    /\ interval' = 0
    /\ current_status' = "None"
    /\ changed_at' = None
    /\ is_up' = FALSE
    /\ new_status' = "None"
    /\ now' = 0
    /\ message' = NoMessage
    /\ attempt' = 0
    /\ send_result' = "None"
    /\ outcomes' = <<>>
    /\ delays' = <<>>
    /\ ping_since' = 0
    /\ prev_status' = "None"
    /\ first_cycle' = TRUE
    /\ cyc_send' = 0
    /\ cyc_save' = 0

Running == pc # "stopped"

----------------------------------------------------------------------------
(* Environment *)

Tick ==
    /\ UNCHANGED << callVars, pending >>
    /\ clock < MaxTime
    /\ clock' = clock + TickSeconds
    /\ UNCHANGED << env, file, truth, truth_since, runs, pc, exit_code, exit_cause,
                    interval, current_status, changed_at, is_up, new_status, now,
                    message, sendVars, ping_since, prev_status, first_cycle, did,
                    cyc_send, cyc_save >>

\* the power at the target goes off or comes back
Flip ==
    /\ UNCHANGED << callVars, pending >>
    /\ truth' = IF truth = "UP" THEN "DOWN" ELSE "UP"
    /\ truth_since' = clock
    /\ UNCHANGED << env, file, clock, runs, pc, exit_code, exit_cause,
                    interval, current_status, changed_at, is_up, new_status, now,
                    message, sendVars, ping_since, prev_status, first_cycle, did,
                    cyc_send, cyc_save >>

\* a signal ends the process wherever it is
Kill ==
    /\ UNCHANGED callVars
    /\ Running
    /\ pending' = IF pc \in {"send", "update"} THEN Some(new_status) ELSE pending
    /\ Stop(None, "killed")
    /\ UNCHANGED << env, file, envVars, runs, did >>

----------------------------------------------------------------------------
(* main *)

\* lines 122-145: the process starts and resolves its configuration
Start ==
    /\ UNCHANGED << callVars, pending >>
    /\ pc = "stopped"
    /\ runs < MaxRuns
    /\ runs' = runs + 1
    /\ did' = NoneDone
    /\ \E e \in EnvSamples :
        /\ env' = e
        /\ IF ConfigOk(e)
           THEN /\ pc' = "load"
                /\ interval' = PyInt(IntervalText(e))
                /\ exit_code' = None
                /\ exit_cause' = "none"
                /\ UNCHANGED << current_status, changed_at, is_up, new_status, now,
                                message, sendVars, ping_since, prev_status,
                                first_cycle, cyc_send, cyc_save >>
           ELSE Stop(Some(1), "config")
    /\ UNCHANGED << file, envVars >>

\* lines 147-155
LoadState ==
    /\ UNCHANGED << callVars, pending >>
    /\ pc = "load"
    /\ did' = [did EXCEPT !.load = TRUE]
    /\ IF load_state(file) = "raise" \/ (Truthy(file) /\ ~Adoptable(file))
       THEN Stop(Some(1), "load_crash")
       ELSE /\ IF load_state(file) = "value" /\ Truthy(file)
               THEN /\ current_status' = file.status
                    /\ changed_at' = file.changed_at
               ELSE /\ current_status' = "None"
                    /\ changed_at' = None
            /\ pc' = "ping"
            /\ UNCHANGED << exit_code, exit_cause, interval, is_up, new_status,
                            now, message, sendVars, ping_since, prev_status,
                            first_cycle, cyc_send, cyc_save >>
    /\ UNCHANGED << env, file, envVars, runs >>

\* ping: what subprocess.run can do; the exit status of ping tells the truth
PingOutcomes == {"returned", "not_found", "exception"}

\* an exception while running ping is read as the answer of the target
IsUpUnlessRefused(outcome, target) == target = "UP"

\* lines 71 and 75-77: the value ping returns
IsUp(outcome, target) == outcome = "returned" /\ target = "UP"

\* line 158, a new cycle begins; the call ends in one of `outs`
PingFrom(outs) ==
    /\ UNCHANGED << callVars, pending >>
    /\ pc = "ping"
    /\ \E o \in outs :
        /\ did' = [did EXCEPT !.probe = TRUE, !.ping = o]
        /\ IF o = "not_found"
           THEN Stop(Some(1), "ping_not_found")
           ELSE /\ is_up' = IsUp(o, truth)
                /\ pc' = "decide"
                /\ prev_status' = current_status
                /\ cyc_send' = 0
                /\ cyc_save' = 0
                /\ send_result' = "None"
                /\ outcomes' = <<>>
                /\ delays' = <<>>
                /\ ping_since' = truth_since
                /\ UNCHANGED << exit_code, exit_cause, interval, current_status,
                                changed_at, new_status, now, message, attempt,
                                first_cycle >>
    /\ UNCHANGED << env, file, envVars, runs >>

Ping == PingFrom(PingOutcomes)

\* the same, in a world where running ping raises nothing but FileNotFoundError
PingReliable == PingFrom(PingOutcomes \ {"exception"})

\* lines 159-177 and 183-184: up to the call of send_telegram, or to the sleep
Decide ==
    /\ UNCHANGED callVars
    /\ pc = "decide"
    /\ LET status == StatusOf(is_up) IN
       IF IsColdStart(current_status)
       THEN /\ did' = [did EXCEPT !.save = TRUE]
            /\ \E so \in SaveOutcomes :
                /\ file' = save_state(file, status, Stamp(clock), so)
                /\ IF so = "ok"
                   THEN /\ new_status' = status
                        /\ now' = clock
                        /\ current_status' = status
                        /\ changed_at' = Stamp(clock)
                        /\ cyc_save' = cyc_save + 1
                        /\ pc' = "sleep"
                        /\ UNCHANGED << exit_code, exit_cause, interval, is_up,
                                        message, sendVars, ping_since, prev_status,
                                        first_cycle, cyc_send >>
                   ELSE Stop(Some(1), "save_crash")
       ELSE IF IsTransition(status, current_status)
       THEN /\ new_status' = status
            /\ now' = clock
            /\ message' = BuildMessage(status, changed_at, clock)
            /\ pc' = "send"
            /\ attempt' = FirstAttempt(did.failed)
            /\ cyc_send' = cyc_send + 1
            /\ did' = [did EXCEPT !.send = TRUE, !.detected = Some(clock)]
            /\ UNCHANGED << file, exit_code, exit_cause, interval, is_up,
                            current_status, changed_at, send_result, outcomes,
                            delays, ping_since, prev_status, first_cycle, cyc_save >>
       ELSE /\ new_status' = status
            /\ now' = clock
            /\ pc' = "sleep"
            /\ UNCHANGED << file, exit_code, exit_cause, interval, is_up,
                            current_status, changed_at, message, sendVars,
                            ping_since, prev_status, first_cycle, cyc_send,
                            cyc_save, did >>
    /\ UNCHANGED << env, envVars, runs >>
    /\ pending' = IF file' = file THEN pending ELSE None

\* send_telegram, lines 102-119: one turn of the retry loop
Attempt ==
    /\ UNCHANGED << callVars, pending >>
    /\ pc = "send"
    /\ \E o \in PostOutcomes :
        /\ outcomes' = Append(outcomes, o)
        /\ IF Delivered(o)
           THEN /\ send_result' = "True"
                /\ pc' = AfterSend("True")
                /\ attempt' = 0
                /\ UNCHANGED << delays, did >>
           ELSE IF attempt < max_retries - 1
           THEN /\ delays' = Append(delays, Backoff(attempt))
                /\ attempt' = attempt + 1
                /\ UNCHANGED << pc, send_result, did >>
           ELSE /\ send_result' = "False"
                /\ pc' = AfterSend("False")
                /\ attempt' = 0
                /\ did' = [did EXCEPT !.failed = TRUE]
                /\ UNCHANGED delays
    /\ UNCHANGED << env, file, envVars, runs, exit_code, exit_cause, interval,
                    current_status, changed_at, is_up, new_status, now, message,
                    ping_since, prev_status, first_cycle, cyc_send, cyc_save >>

\* lines 180-182
Update ==
    /\ UNCHANGED callVars
    /\ pc = "update"
    /\ did' = [did EXCEPT !.save = TRUE]
    /\ \E so \in SaveOutcomes :
        /\ file' = save_state(file, new_status, Stamp(now), so)
        /\ IF so = "ok"
           THEN /\ current_status' = new_status
                /\ changed_at' = Stamp(now)
                /\ cyc_save' = cyc_save + 1
                /\ pc' = "sleep"
                /\ UNCHANGED << exit_code, exit_cause, interval, is_up, new_status,
                                now, message, sendVars, ping_since, prev_status,
                                first_cycle, cyc_send >>
           ELSE Stop(Some(1), "save_crash")
    /\ UNCHANGED << env, envVars, runs >>
    /\ pending' = IF file' = file THEN pending ELSE None

\* line 186: time.sleep raises ValueError for a negative length
Sleep ==
    /\ UNCHANGED << callVars, pending >>
    /\ pc = "sleep"
    /\ IF interval < 0
       THEN Stop(Some(1), "sleep_crash")
       ELSE /\ pc' = "ping"
            /\ first_cycle' = FALSE
            /\ UNCHANGED << exit_code, exit_cause, interval, current_status,
                            changed_at, is_up, new_status, now, message, sendVars,
                            ping_since, prev_status, cyc_send, cyc_save >>
    /\ UNCHANGED << env, file, envVars, runs, did >>

----------------------------------------------------------------------------

Next ==
    \/ Tick
    \/ Flip
    \/ Kill
    \/ Start
    \/ LoadState
    \/ Ping
    \/ Decide
    \/ Attempt
    \/ Update
    \/ Sleep

Spec == Init /\ [][Next]_vars

NextReliable ==
    \/ Tick
    \/ Flip
    \/ Kill
    \/ Start
    \/ LoadState
    \/ PingReliable
    \/ Decide
    \/ Attempt
    \/ Update
    \/ Sleep

\* every probe that returns reports the target's true status
SpecReliable == Init /\ [][NextReliable]_vars

----------------------------------------------------------------------------
(* format_duration called on its own, on elapsed times of up to MaxDays days *)

MaxDays == 2

FmtInputs ==
    { d * 86400 + h * 3600 + m * 60 + sec :
        d \in 0..MaxDays, h \in {0, 1, 23}, m \in {0, 1, 59}, sec \in {0, 1, 30, 59} }

\* no process: only the call
NoProcess ==
    /\ env = NoEnv
    /\ file = Other("absent")
    /\ clock = 0
    /\ truth = "UP"
    /\ truth_since = 0
    /\ runs = 0
    /\ exit_code = None
    /\ exit_cause = "none"
    /\ interval = 0
    /\ current_status = "None"
    /\ changed_at = None
    /\ is_up = FALSE
    /\ new_status = "None"
    /\ now = 0
    /\ message = NoMessage
    /\ attempt = 0
    /\ send_result = "None"
    /\ outcomes = <<>>
    /\ delays = <<>>
    /\ ping_since = 0
    /\ prev_status = "None"
    /\ first_cycle = TRUE
    /\ did = NoneDone
    /\ cyc_send = 0
    /\ cyc_save = 0
    /\ pending = None

InitFmt ==
    /\ NoProcess
    /\ pc = "fmt_call"
    /\ arg \in FmtInputs
    /\ ret = None

CallFormatDuration ==
    /\ pc = "fmt_call"
    /\ ret' = format_duration(arg)
    /\ pc' = "fmt_done"
    /\ UNCHANGED << mainVars, arg >>

NextFmt == CallFormatDuration

SpecFmt == InitFmt /\ [][NextFmt]_vars

----------------------------------------------------------------------------
(* validate_ipv4 called on its own *)

\* segments: plain octets, out of range, empty, a letter, signs, a space, an
\* underscore, a leading zero
PartSamples ==
    { << "0" >>, << "7" >>, << "2", "5", "5" >>, << "2", "5", "6" >>, <<>>,
      << "a" >>, << "+", "1" >>, << "-", "1" >>, << " ", "1" >>,
      << "1", "_", "0" >>, << "0", "1" >> }

\* three, four and five segments
TailSamples ==
    { << << "3" >> >>, << << "3" >>, << "4" >> >>,
      << << "3" >>, << "4" >>, << "5" >> >> }

RECURSIVE Dotted(_)
Dotted(parts) ==
    IF Len(parts) = 0 THEN <<>>
    ELSE IF Len(parts) = 1 THEN parts[1]
    ELSE parts[1] \o << "." >> \o Dotted(Tail(parts))

IpInputs ==
    { Dotted(<< p, q >> \o rest) : p \in PartSamples, q \in PartSamples,
                                   rest \in TailSamples }

InitIp ==
    /\ NoProcess
    /\ pc = "ip_call"
    /\ arg \in IpInputs
    /\ ret = None

CallValidateIpv4 ==
    /\ pc = "ip_call"
    /\ ret' = validate_ipv4(arg)
    /\ pc' = "ip_done"
    /\ UNCHANGED << mainVars, arg >>

NextIp == CallValidateIpv4

SpecIp == InitIp /\ [][NextIp]_vars

----------------------------------------------------------------------------
(* Properties *)

\* the cycle has taken its decision: new_status and now are those of this cycle
Decided == pc \in {"send", "update", "sleep"}

Failed(o) == o # "200"

\* C1: in a cycle where a remembered status exists and the observed status
\* equals it, send_telegram and save_state are not invoked; a cycle invokes both
\* only if the observed status differs from the non-empty remembered status.
C1_SameStatusNoAction ==
    /\ (Decided /\ prev_status # "None" /\ new_status = prev_status)
          => (cyc_send = 0 /\ cyc_save = 0)
    /\ (cyc_send > 0 /\ cyc_save > 0)
          => (prev_status # "None" /\ new_status # prev_status)

\* a second cycle of a run ends having observed the remembered status again
C1_Witness ==
    /\ pc = "sleep"
    /\ ~first_cycle
    /\ prev_status = "DOWN"
    /\ new_status = "DOWN"

\* C2: a run that starts with no remembered status adopts the first probe result
\* in its first cycle, with changed_at = now, calls save_state once with that
\* status, and does not invoke send_telegram, for UP as for DOWN.
C2_ColdStartSilent ==
    /\ (first_cycle /\ prev_status = "None") => (pc # "send" /\ pc # "update")
    /\ (pc = "sleep" /\ first_cycle /\ prev_status = "None")
          => /\ new_status = StatusOf(is_up)
             /\ current_status = new_status
             /\ changed_at = Some(now)
             /\ cyc_save = 1
             /\ file = Record(new_status, Some(now))
             /\ cyc_send = 0
             /\ ~did.send

C2_Witness ==
    /\ pc = "sleep"
    /\ first_cycle
    /\ prev_status = "None"
    /\ new_status = "UP"
    /\ now > 0

\* C3: a run that starts from a record {S, T} and observes the other status in
\* its first cycle invokes send_telegram once, with the message of the new
\* status and the duration now - T; if it observes S, nothing is sent and T is
\* kept.
C3_RestartContinuity ==
    /\ (first_cycle /\ prev_status # "None" /\ pc \in {"send", "update"})
          => /\ new_status # prev_status
             /\ cyc_send = 1
             /\ file.kind = "record"
             /\ file.status = prev_status
             /\ message.phrase = (IF new_status = "DOWN" THEN "down" ELSE "up")
             /\ message.duration_str = format_duration(now - file.changed_at[1])
    /\ (first_cycle /\ prev_status # "None" /\ pc = "sleep" /\ new_status # prev_status)
          => cyc_send = 1
    /\ (first_cycle /\ prev_status # "None" /\ pc = "sleep" /\ new_status = prev_status)
          => /\ cyc_send = 0
             /\ cyc_save = 0
             /\ current_status = prev_status
             /\ changed_at = file.changed_at
             /\ file.status = prev_status

\* restarted from {DOWN, T}, the first probe sees UP at least a minute after T
C3_Witness ==
    /\ first_cycle
    /\ pc = "send"
    /\ prev_status = "DOWN"
    /\ new_status = "UP"
    /\ file.kind = "record"
    /\ now - file.changed_at[1] >= 60

\* C4: send_telegram makes at most 3 POST attempts, stops at the first that
\* returns HTTP 200 and returns True, and returns False exactly when all 3
\* attempts failed.
C4_SendRetries ==
    /\ Len(outcomes) <= 3
    /\ pc = "send" => /\ Len(outcomes) = attempt
                      /\ Len(outcomes) < 3
                      /\ \A i \in 1..Len(outcomes) : Failed(outcomes[i])
    /\ send_result = "True"
          => /\ Len(outcomes) >= 1
             /\ outcomes[Len(outcomes)] = "200"
             /\ \A i \in 1..(Len(outcomes) - 1) : Failed(outcomes[i])
    /\ send_result = "False"
          => /\ Len(outcomes) = 3
             /\ \A i \in 1..3 : Failed(outcomes[i])
    /\ (Len(outcomes) = 3 /\ \A i \in 1..3 : Failed(outcomes[i]))
          => send_result = "False"

\* fail, fail, success
C4_Witness ==
    /\ outcomes = << "non200", "transport", "200" >>
    /\ send_result = "True"

\* C5: a cycle that detects a transition updates the remembered status and
\* changed_at to the observed status and now and saves them, whatever
\* send_telegram returned; a message is only ever the one of the transition just
\* detected; at the end of a cycle the remembered status is the persisted one.
C5_BookkeepingRegardless ==
    /\ (pc = "sleep" /\ prev_status # "None" /\ new_status # prev_status)
          => /\ send_result \in {"True", "False"}
             /\ current_status = new_status
             /\ changed_at = Some(now)
             /\ cyc_save = 1
             /\ file = Record(new_status, Some(now))
    /\ pc = "send"
          => /\ new_status # current_status
             /\ message = BuildMessage(new_status, changed_at, now)
    /\ pc = "sleep"
          => /\ file.kind = "record"
             /\ file.status = current_status

\* the notification failed three times and the new status is on disk
C5_Witness ==
    /\ pc = "sleep"
    /\ cyc_send = 1
    /\ send_result = "False"
    /\ current_status = "DOWN"
    /\ file = Record("DOWN", Some(now))

\* C6: once the loop has been entered, the process terminates by itself only
\* when the ping executable cannot be invoked.
C6_OnlyPingMissingTerminates ==
    (pc = "stopped" /\ did.probe /\ exit_cause # "killed")
        => exit_cause = "ping_not_found"

\* C7: whatever the state file holds at startup, the process does not crash: a
\* well-formed record is adopted, anything else leaves the remembered state
\* empty.
C7_MalformedStateIsColdStart ==
    /\ exit_cause # "load_crash"
    /\ (pc = "ping" /\ ~did.probe)
          => IF file.kind = "record"
             THEN current_status = file.status /\ changed_at = file.changed_at
             ELSE current_status = "None" /\ changed_at = None

\* C8 as stated: the remembered changed_at is never earlier than the true start
\* of the target's current continuous run of the remembered status.
C8_NeverBeforeCurrentRun ==
    (Running /\ current_status # "None" /\ current_status = truth)
        => changed_at[1] >= truth_since

\* C8, amended: the remembered status and changed_at are only ever loaded from
\* the persisted record or set together by a cycle, to the status its probe
\* observed and to the time sampled in that cycle, which is not earlier than the
\* start of the run of the target that the probe observed; changed_at is never
\* in the future.
C8_StampedAtObservation ==
    /\ [](changed_at # None => changed_at[1] <= clock)
    /\ [][ (pc' # "stopped"
              /\ (current_status' # current_status \/ changed_at' # changed_at))
           => \/ /\ pc = "load"
                 /\ file.kind = "record"
                 /\ current_status' = file.status
                 /\ changed_at' = file.changed_at
              \/ /\ pc \in {"decide", "update"}
                 /\ current_status' = StatusOf(is_up)
                 /\ current_status' # current_status
                 /\ changed_at' = Some(now')
                 /\ now' >= ping_since ]_vars

\* a transition to UP detected after the run of UP had begun, later than time 0
C8_Witness ==
    /\ pc = "sleep"
    /\ prev_status = "DOWN"
    /\ current_status = "UP"
    /\ ping_since > 0
    /\ changed_at[1] > ping_since

\* texts and addresses as the configuration table defines them
MissingOrEmpty(v) == ~v.set \/ v.val = <<>>

IsDigits(s) == Len(s) > 0 /\ \A i \in 1..Len(s) : s[i] \in DigitChars

IsIntegerText(s) == IsDigits(Unsigned(s))

IsPositiveIntegerText(s) == IsIntegerText(s) /\ PyInt(s) > 0

IsDottedQuad(s) ==
    LET parts == Split(s, ".")
    IN  /\ Len(parts) = 4
        /\ \A i \in 1..4 : IsDigits(parts[i]) /\ PyInt(parts[i]) <= 255

\* C9: startup fails with exit code 1, before any probe, save_state or
\* send_telegram, whenever the configured interval is not a positive integer.
C9_NonPositiveIntervalFails ==
    (runs > 0 /\ ~IsPositiveIntegerText(IntervalText(env)))
        => /\ pc = "stopped"
           /\ exit_code = Some(1)
           /\ ~did.probe /\ ~did.save /\ ~did.send

\* C10: when startup fails on the configuration (a required variable missing
\* or empty, an invalid address, an unparseable interval) the process exits
\* with code 1 and has not read or written the state file, probed or notified.
C10_ConfigFailureHasNoEffect ==
    /\ (runs > 0
          /\ \/ MissingOrEmpty(env.token)
             \/ MissingOrEmpty(env.chat_id)
             \/ MissingOrEmpty(env.target_ip)
             \/ ~IsDottedQuad(env.target_ip.val)
             \/ ~IsIntegerText(IntervalText(env)))
          => /\ pc = "stopped"
             /\ exit_code = Some(1)
             /\ exit_cause = "config"
             /\ did = NoneDone
    /\ exit_cause = "config"
          => /\ pc = "stopped"
             /\ exit_code = Some(1)
             /\ did = NoneDone

\* the second start fails on the address, after a first run that wrote a record
C10_Witness ==
    /\ runs = 2
    /\ exit_cause = "config"
    /\ ~MissingOrEmpty(env.target_ip)
    /\ ~IsDottedQuad(env.target_ip.val)
    /\ file.kind = "record"

\* C11: a send_telegram call that returns False leaves the process running,
\* at the state update; afterwards a cycle whose observed status differs from
\* the remembered one invokes send_telegram again, and every invocation starts
\* with no attempt made: the budget of 3 is not carried over.
C11_FreshBudgetAfterFailure ==
    /\ [][ (pc = "send" /\ send_result' = "False")
              => (pc' = "update" /\ exit_cause' = "none") ]_vars
    /\ [][ (pc = "decide" /\ pc' \notin {"decide", "stopped"} /\ did.failed
              /\ current_status # "None" /\ StatusOf(is_up) # current_status)
              => (pc' = "send" /\ cyc_send' = 1) ]_vars
    /\ [][ (pc # "send" /\ pc' = "send")
              => (attempt' = 0 /\ outcomes' = <<>> /\ delays' = <<>>) ]_vars
    /\ [](pc = "send" => (attempt = Len(outcomes) /\ attempt < 3))

\* after a call that failed three times, a later call is at its third attempt
C11_Witness ==
    /\ did.failed
    /\ pc = "send"
    /\ attempt = 2
    /\ Len(outcomes) = 2

RECURSIVE SumOf(_)
SumOf(q) == IF Len(q) = 0 THEN 0 ELSE Head(q) + SumOf(Tail(q))

\* C12: inside send_telegram the sleep after the i-th failed attempt is 2^i
\* seconds while attempts remain: 2 after the first failure, 4 after the second,
\* none after the third attempt and none after a success, at most 6 in all.
C12_BackoffSleeps ==
    /\ Len(delays) <= 2
    /\ Len(delays) >= 1 => delays[1] = 2
    /\ Len(delays) >= 2 => delays[2] = 4
    /\ SumOf(delays) <= 6
    /\ pc = "send" => Len(delays) = Len(outcomes)
    /\ send_result = "True" => Len(delays) = Len(outcomes) - 1
    /\ send_result = "False" => (Len(outcomes) = 3 /\ delays = << 2, 4 >>)

\* three failed attempts: two sleeps, none after the last
C12_Witness ==
    /\ send_result = "False"
    /\ delays = << 2, 4 >>
    /\ Len(outcomes) = 3

\* C13: at every inter-cycle sleep the record on disk is exactly the remembered
\* status and changed_at; every creation or change of the remembered state is
\* saved, both fields, in the step that makes it; the file is read at startup
\* only, and the remembered state never changes outside startup and the
\* decision of a cycle.
C13_DiskIsMemoryAtSleep ==
    /\ [](pc = "sleep" => file = Record(current_status, changed_at))
    /\ []((Running /\ pc # "load") => did.load)
    /\ [][ (pc \in {"decide", "update"} /\ pc' # "stopped"
              /\ (current_status' # current_status \/ changed_at' # changed_at))
           => /\ file' = Record(current_status', changed_at')
              /\ cyc_save' = cyc_save + 1
              /\ pc' = "sleep" ]_vars
    /\ [][ (~did.load /\ did'.load) => pc = "load" ]_vars
    /\ [][ (pc \notin {"load", "decide", "update"} /\ pc' # "stopped")
           => (current_status' = current_status /\ changed_at' = changed_at) ]_vars

\* a later cycle has replaced an older record and sleeps
C13_Witness ==
    /\ pc = "sleep"
    /\ ~first_cycle
    /\ cyc_save = 1
    /\ changed_at[1] > 0
    /\ file = Record(current_status, changed_at)

\* the whole minutes of s seconds as days, hours 0..23 and minutes 0..59
PartsOf(s) ==
    CHOOSE p \in [d : 0..MaxDays, h : 0..23, m : 0..59] :
        /\ p.d * 86400 + p.h * 3600 + p.m * 60 <= s
        /\ s < p.d * 86400 + p.h * 3600 + p.m * 60 + 60

\* C14: format_duration(s) is the days, hours and minutes of floor(s / 60)
\* minutes: a days segment iff days > 0, an hours segment iff days > 0 or
\* hours > 0, always a minutes segment; 0 s, 90 s, 3661 s and 90000 s give
\* 0m, 1m, 1h 1m and 1d 1h 0m.
C14_FormatDuration ==
    pc = "fmt_done"
        => /\ LET p == PartsOf(arg) IN
              ret = (IF p.d > 0 THEN << Seg(p.d, "d") >> ELSE <<>>)
                    \o (IF p.d > 0 \/ p.h > 0 THEN << Seg(p.h, "h") >> ELSE <<>>)
                    \o << Seg(p.m, "m") >>
           /\ arg = 0 => ret = << Seg(0, "m") >>
           /\ arg = 90 => ret = << Seg(1, "m") >>
           /\ arg = 3661 => ret = << Seg(1, "h"), Seg(1, "m") >>
           /\ arg = 90000 => ret = << Seg(1, "d"), Seg(1, "h"), Seg(0, "m") >>

\* one day and one minute: the hours segment is there, with 0
C14_Witness ==
    /\ pc = "fmt_done"
    /\ arg = 86460
    /\ ret = << Seg(1, "d"), Seg(0, "h"), Seg(1, "m") >>

\* C15: validate_ipv4 returns True exactly for four dot-separated decimal
\* integers in 0..255 with no other characters, and False for every other
\* string, a segment with a sign, whitespace or an underscore included.
C15_ExactlyDottedQuads ==
    pc = "ip_done" => (ret = IsDottedQuad(arg))

\* the order of the steps of main
StepOrder ==
    { << "load", "ping" >>, << "ping", "decide" >>, << "decide", "send" >>,
      << "decide", "sleep" >>, << "send", "update" >>, << "update", "sleep" >>,
      << "sleep", "ping" >> }

\* C16: the steps of a cycle follow one another: probe, then on a transition
\* the whole send_telegram call, then the state update with save_state, then
\* the sleep; while the notification is retried nothing is probed or saved, and
\* the file does not show the new status before send_telegram has returned.
C16_StrictlySerial ==
    /\ [][ (pc' # pc /\ pc # "stopped" /\ pc' # "stopped")
              => << pc, pc' >> \in StepOrder ]_vars
    /\ [][ (pc = "send" /\ pc' # "stopped")
              => /\ is_up' = is_up
                 /\ new_status' = new_status
                 /\ now' = now
                 /\ file' = file
                 /\ current_status' = current_status
                 /\ changed_at' = changed_at
                 /\ cyc_save' = 0 ]_vars
    /\ [](pc = "send" => send_result = "None")
    /\ [](pc = "update" => send_result \in {"True", "False"})
    /\ [](pc \in {"send", "update"}
            => /\ file = Record(prev_status, changed_at)
               /\ file.status # new_status)
    /\ []((pc = "sleep" /\ cyc_send = 1)
            => (send_result \in {"True", "False"} /\ cyc_save = 1))

\* all three attempts and both sleeps are over, time has passed, and the old
\* record is still on disk
C16_Witness ==
    /\ pc = "update"
    /\ Len(outcomes) = 3
    /\ delays = << 2, 4 >>
    /\ clock > now
    /\ file = Record(prev_status, changed_at)

\* C17: a probe that fails otherwise than by a missing ping executable (an
\* exception, a non-zero exit status) observes DOWN and does not end the
\* process; with UP remembered, that cycle calls send_telegram with the
\* 'down' message and, where it reaches its sleep, DOWN is on disk.
C17_ProbeFailureIsDown ==
    /\ [][ (pc = "ping" /\ pc' # pc /\ exit_cause' # "killed"
              /\ did'.ping # "not_found")
              => (pc' = "decide" /\ exit_cause' = "none") ]_vars
    /\ [][ (pc = "ping" /\ pc' = "decide"
              /\ (did'.ping = "exception" \/ truth = "DOWN"))
              => ~is_up' ]_vars
    /\ []((pc = "decide" /\ did.ping = "exception") => ~is_up)
    /\ []((Decided /\ did.ping = "exception") => new_status = "DOWN")
    /\ []((Decided /\ ~is_up /\ prev_status = "UP")
            => /\ new_status = "DOWN"
               /\ cyc_send = 1
               /\ message.phrase = "down"
               /\ (pc = "sleep"
                     => /\ current_status = "DOWN"
                        /\ file = Record("DOWN", Some(now))))

\* ping raised while the target was up and UP was remembered: the cycle ended
\* with DOWN on disk
C17_Witness ==
    /\ pc = "sleep"
    /\ did.ping = "exception"
    /\ truth = "UP"
    /\ ping_since = truth_since
    /\ prev_status = "UP"
    /\ cyc_send = 1
    /\ file.kind = "record"
    /\ file.status = "DOWN"

\* C18: now is read once in a cycle, after the probe and before the
\* notification; it ends the state that is over (the reported duration is now
\* minus the old changed_at) and begins the new one (the new changed_at is
\* now). Within a run the duration a transition reports is therefore its
\* detection time minus the detection time of the transition before it,
\* however long the retries of that one took.
C18_DurationsTile ==
    /\ [][ (pc = "decide" /\ pc' \notin {"decide", "stopped"})
              => now' = clock ]_vars
    /\ [][ (pc \in {"send", "update"} /\ pc' # "stopped") => now' = now ]_vars
    /\ [](pc \in {"send", "update"}
            => message.duration_str = format_duration(now - changed_at[1]))
    /\ []((pc = "sleep" /\ cyc_send = 1)
            => (changed_at = Some(now) /\ file.changed_at = Some(now)))
    /\ [][ (pc = "decide" /\ pc' = "send" /\ did.detected # None)
              => /\ changed_at = did.detected
                 /\ message'.duration_str
                      = format_duration(clock - did.detected[1]) ]_vars

\* a second transition of the run is being notified, the notification of the
\* one before it had used up its attempts, and time has passed in between
C18_Witness ==
    /\ pc = "send"
    /\ did.failed
    /\ changed_at # None
    /\ changed_at[1] > 0
    /\ now > changed_at[1]
    /\ file = Record(prev_status, changed_at)

\* C19: a process killed after it has called send_telegram for a transition
\* and before save_state has written leaves the old status on disk; a later
\* process whose probe observes the new status while that record stands finds
\* the same transition and calls send_telegram for it again.
C19_AtLeastOnce ==
    /\ [][ (pc \in {"send", "update"} /\ pc' = "stopped" /\ exit_cause' = "killed")
              => /\ pending' = Some(new_status)
                 /\ file' = file
                 /\ file.kind = "record"
                 /\ file.status # new_status ]_vars
    /\ [](pending # None => (file.kind = "record" /\ file.status # pending[1]))
    /\ []((pending # None /\ pc \in {"ping", "decide"})
            => current_status = file.status)
    /\ [][ (pc = "decide" /\ pc' \notin {"decide", "stopped"} /\ pending # None
              /\ StatusOf(is_up) = pending[1])
              => /\ pc' = "send"
                 /\ cyc_send' = 1
                 /\ new_status' = pending[1]
                 /\ message'.phrase
                      = (IF pending[1] = "DOWN" THEN "down" ELSE "up") ]_vars

\* the second process is in send_telegram, in its first cycle, for the status
\* the killed one had notified and not saved
C19_Witness ==
    /\ runs = 2
    /\ pc = "send"
    /\ first_cycle
    /\ cyc_send = 1
    /\ pending = Some(new_status)
    /\ file.status = current_status

\* C20: in a run the remembered status is empty only until the first cycle
\* has set it and is UP or DOWN from then on; a cycle calls send_telegram at
\* most once; the message of a call says the newly observed status, and the
\* message of the next call of the run says the other one.
C20_SendsAlternate ==
    /\ []((Running /\ current_status = "None")
            => (first_cycle /\ pc \in {"load", "ping", "decide"}))
    /\ []((Running /\ current_status # "None")
            => current_status \in {"UP", "DOWN"})
    /\ []((pc = "sleep" \/ (Running /\ ~first_cycle))
            => current_status \in {"UP", "DOWN"})
    /\ [](cyc_send <= 1)
    /\ [][ (pc = "decide" /\ pc' = "send")
              => /\ message'.phrase
                      = (IF new_status' = "DOWN" THEN "down" ELSE "up")
                 /\ new_status' = StatusOf(is_up)
                 /\ message'.phrase # message.phrase ]_vars
    /\ [](pc \in {"send", "update"}
            => message.phrase = (IF prev_status = "UP" THEN "down" ELSE "up"))

\* a second call of the run has delivered its 'down' message after an earlier
\* one, which was an 'up' message, had failed
C20_Witness ==
    /\ pc = "update"
    /\ ~first_cycle
    /\ did.failed
    /\ send_result = "True"
    /\ message.phrase = "down"
    /\ prev_status = "UP"
    /\ cyc_send = 1

====
